---- MODULE Spec2Model ----
(***************************************************************************)
(* Model of the cerveau dashboard (src/cerveau/cli/app.py): the workspace  *)
(* scan, the selection index, the key -> effect registry and the           *)
(* scan / render / prompt / dispatch loop of _vince_tui; and of the GitHub *)
(* client with its file cache (src/cerveau/gh/client.py).                  *)
(*                                                                         *)
(* File names are sequences of character codes (ASCII), so that            *)
(* str.startswith, str.lower and the ordering of sorted() are computed     *)
(* the way Python computes them.                                           *)
(***************************************************************************)
EXTENDS Integers, Sequences, FiniteSets, TLC

VARIABLES
    pc,              \* position of _vince_tui: "scan", "render", "prompt",
                     \* "dispatch", "wait" (blocked in subprocess.run),
                     \* "py_install", "done" (returned), or left by an uncaught
                     \* exception: "raised_scan", "raised_prompt", "raised_effect"
    root,            \* state of workspace_root on disk: "absent", "dir", "file"
    fs,              \* children of workspace_root: name -> [isdir, markers]
    items,           \* the loop's local `items` (latest scan result)
    selected_index,  \* the nonlocal selected_index
    selected,        \* `selected` captured by the action closures of this
                     \* iteration's render (<<>> is None, also before that render)
    key,             \* the loop's local `key` (<<>> once the next scan has
                     \* returned: the local is dead until the next prompt)
    running,         \* the child process subprocess.run is blocked on (<<>>: none)
    after,           \* where the blocked effect continues once the child exits
    cmds,            \* history: processes spawned since the last scan
    exited,          \* history: a child of an effect has exited, no render since
    clamped,         \* history: the last render changed selected_index
    input,           \* history: what Prompt.ask read since the last scan, "none"
                     \* before it reads
    painted,         \* what the render of this iteration put on screen: rows,
                     \* summary counts, footer (NoPaint before that render)
    pips,            \* history: the pip invocations of the install script
                     \* started since the last scan, each with the interpreter
                     \* it reached
    cache,           \* files of the GitHub client's cache directory: key ->
                     \* <<>> (no file) or <<[mtime, value]>>
    now,             \* time.time(), in ticks
    call             \* history: the last GitHubClient._get call, NoCall before
                     \* the first

vars == <<pc, root, fs, items, selected_index, selected, key, running, after,
          cmds, exited, clamped, input, painted, pips, cache, now, call>>

----------------------------------------------------------------------------
(* Bounds of the model *)

\* number of projects of ProjectPool the environment may create under the
\* workspace root in the dashboard specification
MaxDirs == 3

\* largest number of children of the root in the scan specification
MaxScanChildren == 2

\* largest number of items of a scan result in the render specification
MaxItems == 31

\* cache.ttl_seconds of the client's configuration, in ticks
CacheTtl == 2

\* last tick of the clock in the client specification
MaxTime == 4

----------------------------------------------------------------------------
(* Names *)

Dot == 46

NameA == <<97>>
NameUpperA == <<65>>
NameUpperB == <<66>>
NameC == <<99>>
NameUpperD == <<68>>
NameE == <<101>>
\* ".obsidian"
DotObsidian == <<46, 111, 98, 115, 105, 100, 105, 97, 110>>
\* ".git"
DotGit == <<46, 103, 105, 116>>
\* ".o"
DotO == <<46, 111>>
\* "node_modules"
NodeModules == <<110, 111, 100, 101, 95, 109, 111, 100, 117, 108, 101, 115>>
\* "__pycache__"
PyCache == <<95, 95, 112, 121, 99, 97, 99, 104, 101, 95, 95>>
\* ".venv"
DotVenv == <<46, 118, 101, 110, 118>>
\* "dist"
Dist == <<100, 105, 115, 116>>
\* "Dist"
UpperDist == <<68, 105, 115, 116>>
\* "build"
Build == <<98, 117, 105, 108, 100>>
\* ".cache"
DotCache == <<46, 99, 97, 99, 104, 101>>

\* the names rejected at app.py:135
NoiseNames == {NodeModules, PyCache, DotVenv, Dist, Build, DotCache}

\* str.lower() on one ASCII character code
LowerChar(c) == IF c >= 65 /\ c <= 90 THEN c + 32 ELSE c

\* p.name.lower()
Lower(s) == [i \in 1..Len(s) |-> LowerChar(s[i])]

\* Python's  a < b  on str: first differing code point decides, a proper
\* prefix is smaller
StrLess(a, b) ==
    \E k \in 1..(Len(a) + 1) :
        /\ k <= Len(b)
        /\ \A j \in 1..(k - 1) : a[j] = b[j]
        /\ (k = Len(a) + 1 \/ a[k] < b[k])

\* variant: the sort compares the names as they are
SortKeyCaseSensitive(name) == name

\* the sort key of scan_workspace
SortKey(name) == Lower(name)

\* one insertion step of a stable sort: x goes before the first element
\* whose key is strictly greater
InsertByKey(s, x) ==
    LET later == {i \in 1..Len(s) : StrLess(SortKey(x), SortKey(s[i]))}
        pos == IF later = {} THEN Len(s) + 1
               ELSE CHOOSE i \in later : \A j \in later : i <= j
    IN SubSeq(s, 1, pos - 1) \o <<x>> \o SubSeq(s, pos, Len(s))

RECURSIVE sorted(_)
\* sorted(root.iterdir(), key=lambda p: p.name.lower()): stable, so children
\* with equal keys keep the order in which iterdir() produced them
sorted(s) ==
    IF s = <<>> THEN <<>>
    ELSE InsertByKey(sorted(SubSeq(s, 1, Len(s) - 1)), s[Len(s)])

----------------------------------------------------------------------------
(* The filesystem under the workspace root *)

\* marker entries the classifiers look for inside a child directory
Markers == {".git", "pyproject.toml", "requirements.txt", "setup.py", "Pipfile",
            "package.json", ".obsidian", ".venv"}

\* p.is_dir() / path.exists() of a child of the root
IsDir(fsys, name) == name \in DOMAIN fsys /\ fsys[name].isdir

\* (path / entry).exists()
HasEntry(fsys, name, entry) == IsDir(fsys, name) /\ entry \in fsys[name].markers

_git_is_repo(fsys, path) == HasEntry(fsys, path, ".git")

_detect_python_project(fsys, path) ==
    \E f \in {"pyproject.toml", "requirements.txt", "setup.py", "Pipfile"} :
        HasEntry(fsys, path, f)

_detect_node_project(fsys, path) == HasEntry(fsys, path, "package.json")

_detect_obsidian(fsys, path) == HasEntry(fsys, path, ".obsidian")

\* variant: every hidden name is rejected, the vault marker included
IsDirCandidateNoAllowList(fsys, name) ==
    IF ~IsDir(fsys, name) THEN FALSE
    ELSE IF name[1] = Dot THEN FALSE
    ELSE IF name \in NoiseNames THEN FALSE
    ELSE TRUE

_is_dir_candidate(fsys, name) ==
    IF ~IsDir(fsys, name) THEN FALSE
    ELSE IF name[1] = Dot /\ name \notin {DotObsidian} THEN FALSE
    ELSE IF name \in NoiseNames THEN FALSE
    ELSE TRUE

\* What the two captured lookups of one child may produce:
\* _sh(...).stdout.strip() of "git rev-parse ... || echo -" and of
\* "git log -1 ... || echo -"; raised: subprocess.run itself raised (bash
\* is not installed, the child directory vanished between is_dir() and the
\* spawn, or the output is not decodable text, as a branch name may be).
LookupOutcomes ==
    { [raised |-> FALSE, branch |-> "main", commit |-> "2 days ago"],
      [raised |-> FALSE, branch |-> "-", commit |-> "-"],
      [raised |-> FALSE, branch |-> "", commit |-> ""],
      [raised |-> TRUE, branch |-> "", commit |-> ""] }

\* out or "-"
OrDash(out) == IF out = "" THEN "-" ELSE out

_git_branch(fsys, path, lk) ==
    IF ~_git_is_repo(fsys, path) THEN "-" ELSE OrDash(lk.branch)

_git_last_commit_relative(fsys, path, lk) ==
    IF ~_git_is_repo(fsys, path) THEN "-" ELSE OrDash(lk.commit)

\* the children whose classification runs the git lookups
GitCandidates(fsys) ==
    {n \in DOMAIN fsys : _is_dir_candidate(fsys, n) /\ _git_is_repo(fsys, n)}

\* every lookup answers
OkLookups(fsys) ==
    [n \in GitCandidates(fsys) |->
        [raised |-> FALSE, branch |-> "main", commit |-> "2 days ago"]]

\* the WorkspaceItem built at app.py:168-187; path is the child's name
\* under the (fixed) root
WorkspaceItem(fsys, child, lookups) ==
    LET is_git == _git_is_repo(fsys, child)
    IN [ name |-> child,
         path |-> child,
         is_git |-> is_git,
         is_python |-> _detect_python_project(fsys, child),
         is_node |-> _detect_node_project(fsys, child),
         is_obsidian |-> _detect_obsidian(fsys, child),
         branch |-> IF is_git THEN _git_branch(fsys, child, lookups[child]) ELSE "-",
         last_commit |-> IF is_git
                         THEN _git_last_commit_relative(fsys, child, lookups[child])
                         ELSE "-" ]

RECURSIVE CollectItems(_, _, _)
\* the body of the for loop of scan_workspace over the sorted children
CollectItems(fsys, children, lookups) ==
    IF children = <<>> THEN <<>>
    ELSE LET child == Head(children)
             rest == CollectItems(fsys, Tail(children), lookups)
         IN IF ~_is_dir_candidate(fsys, child) THEN rest
            ELSE <<WorkspaceItem(fsys, child, lookups)>> \o rest

\* scan_workspace(root) when it returns: iterdir is the order in which
\* root.iterdir() yields the children
scan_workspace(rootState, fsys, iterdir, lookups) ==
    IF rootState = "absent" THEN <<>>
    ELSE CollectItems(fsys, sorted(iterdir), lookups)

\* scan_workspace raises: root.iterdir() on something that exists but is no
\* listable directory, or a lookup's subprocess.run raising
ScanRaises(rootState, fsys, lookups) ==
    \/ rootState = "file"
    \/ /\ rootState = "dir"
       /\ \E n \in GitCandidates(fsys) : lookups[n].raised

\* the orders in which iterdir() may enumerate a set of children
Orders(S) ==
    {s \in [1..Cardinality(S) -> S] : \A i, j \in 1..Cardinality(S) :
                                          i # j => s[i] # s[j]}

----------------------------------------------------------------------------
(* Selection, prompt and action registry of _vince_tui *)

Min(a, b) == IF a <= b THEN a ELSE b
Max(a, b) == IF a >= b THEN a ELSE b

\* variant: the index wraps around on a resize
ClampSelectionWraps(index, n) == IF n > 0 THEN index % n ELSE 0

\* "Clamp selection" of _render, on a list of n items
ClampSelection(index, n) ==
    IF n > 0 THEN Max(0, Min(index, n - 1)) ELSE 0

\* variant: the effects are bound to the first item
SelectedItemFirst(its, index) == IF its # <<>> THEN <<its[1]>> ELSE <<>>

\* `selected = items[selected_index] if items else None`; None is <<>>
SelectedItem(its, index) == IF its # <<>> THEN <<its[index + 1]>> ELSE <<>>

\* rows of the workspace table: `items[:30]`
MaxRows == 30

\* variant: the marker is drawn on the first row
RenderRowsMarkFirst(its, index) ==
    [i \in 1..Min(Len(its), MaxRows) |->
        [marker |-> (i - 1 = 0), name |-> its[i].name, path |-> its[i].path]]

\* the rows _render adds to the workspace table: one per item of
\* items[:30], with the marker where idx == selected_index
RenderRows(its, index) ==
    [i \in 1..Min(Len(its), MaxRows) |->
        [marker |-> (i - 1 = index), name |-> its[i].name, path |-> its[i].path]]

\* the "Summary" counts of _render, shown in the title of the table
SummaryCounts(its) ==
    [dirs |-> Len(its),
     git |-> Cardinality({i \in 1..Len(its) : its[i].is_git}),
     py |-> Cardinality({i \in 1..Len(its) : its[i].is_python}),
     node |-> Cardinality({i \in 1..Len(its) : its[i].is_node}),
     obs |-> Cardinality({i \in 1..Len(its) : its[i].is_obsidian})]

\* the footer of _render: name and path of `selected`, or <<>> for the
\* "No items found" text
Footer(sel) ==
    IF sel = <<>> THEN <<>> ELSE <<[name |-> sel[1].name, path |-> sel[1].path]>>

\* what _render(its) puts on screen once the index is clamped
Paint(its, index) ==
    [rows |-> RenderRows(its, index),
     counts |-> SummaryCounts(its),
     footer |-> Footer(SelectedItem(its, index))]

\* nothing painted yet in this iteration
NoPaint == [rows |-> <<>>, counts |-> SummaryCounts(<<>>), footer |-> <<>>]

\* variant: navigation wraps within the rows of the table
SelectDeltaWithinRows(index, delta, its) ==
    IF its = <<>> THEN index ELSE (index + delta) % Min(Len(its), MaxRows)

\* variant: navigation stops at both ends
SelectDeltaSaturates(index, delta, its) ==
    IF its = <<>> THEN index ELSE Max(0, Min(index + delta, Len(its) - 1))

\* variant: the modulo is missing
SelectDeltaUnwrapped(index, delta, its) ==
    IF its = <<>> THEN index ELSE index + delta

\* _select_delta(delta, items) on the nonlocal selected_index
_select_delta(index, delta, its) ==
    IF its = <<>> THEN index ELSE (index + delta) % Len(its)

\* the keys of the `actions` dict built by _render
ActionKeys == {"j", "k", "o", "g", "n", "p", "r", "q"}

\* lines the operator may type at the prompt (sequences of characters)
InputLines ==
    { <<>>, <<"j">>, <<"k">>, <<"o">>, <<"g">>, <<"n">>, <<"p">>, <<"r">>,
      <<"q">>, <<"x">>, <<" ">>, <<" ", "j">>, <<"q", "q">> }

RECURSIVE LStrip(_)
LStrip(s) == IF s # <<>> /\ Head(s) = " " THEN LStrip(Tail(s)) ELSE s

RECURSIVE RStrip(_)
RStrip(s) ==
    IF s # <<>> /\ s[Len(s)] = " " THEN RStrip(SubSeq(s, 1, Len(s) - 1)) ELSE s

\* str.strip()
Strip(s) == RStrip(LStrip(s))

\* Prompt.ask("Action", default="q").strip() for a line that was read: the
\* default replaces an empty line only
PromptAsk(line) == IF line = <<>> THEN <<"q">> ELSE Strip(line)

\* `key in actions`
InActions(k) == Len(k) = 1 /\ k[1] \in ActionKeys

----------------------------------------------------------------------------
(* External commands of the effects *)

\* the command lines handed to subprocess.run by the effects
GitStatusCmd == "git status --porcelain=v1 && echo '---' && git status"
NpmDevCmd == "npm install && npm run dev"
VenvCmd == "python -m venv .venv"
PipInstallCmd == "source .venv/bin/activate; pip install -U pip; pip install -r requirements.txt"

\* _run(cmd, cwd): ["bash", "-lc", cmd] in directory cwd
RunCmd(script, cwd) ==
    [exe |-> "bash", script |-> script, cwd |-> <<cwd>>, target |-> <<>>]

\* _xopen(path): ["xdg-open", path], no cwd
XopenCmd(path) ==
    [exe |-> "xdg-open", script |-> "", cwd |-> <<>>, target |-> <<path>>]

\* subprocess.run raises before any child exists when the executable is
\* missing or cwd is not an existing directory; a non-zero exit status never
\* raises (check=False)
SpawnRaises(cmd, fsys, exeFound) ==
    \/ ~exeFound
    \/ cmd.cwd # <<>> /\ ~IsDir(fsys, cmd.cwd[1])

\* The pip invocations of the install script (app.py:382-387) run by bash in
\* directory cwd, lines one after the other whatever the status of the line
\* before (no `set -e`, no `&&`):
\*   source .venv/bin/activate      puts .venv/bin first on PATH, fails
\*                                  without .venv and changes nothing then
\*   python -m pip install -U pip   `python` is found through PATH
\*   if [ -f requirements.txt ]; then pip install -r requirements.txt; fi
\* interpreter: "venv" after an activation, else "outer" when PATH outside
\* the environment has python and pip, else "none" (command not found).
InstallScript(fsys, cwd) ==
    LET reached == IF HasEntry(fsys, cwd, ".venv") THEN {"venv"}
                   ELSE {"outer", "none"}
    IN { <<[cmd |-> "python -m pip install -U pip", interpreter |-> i]>>
         \o (IF HasEntry(fsys, cwd, "requirements.txt")
             THEN <<[cmd |-> "pip install -r requirements.txt",
                     interpreter |-> i]>>
             ELSE <<>>) : i \in reached }

\* The first external command of the effect bound to key k for the captured
\* selection `it`, or <<>> when the effect returns without running one.
_open_selected(it) == IF it = <<>> THEN <<>> ELSE <<XopenCmd(it[1].path)>>

\* variant: the is_git guard is missing
GitStatusUnguarded(it) ==
    IF it = <<>> THEN <<>> ELSE <<RunCmd(GitStatusCmd, it[1].path)>>

_git_status(it) ==
    IF it = <<>> \/ ~it[1].is_git THEN <<>>
    ELSE <<RunCmd(GitStatusCmd, it[1].path)>>

\* variant: the dev server is started in the dashboard's own directory
NpmDevNoCwd(it) ==
    IF it = <<>> \/ ~it[1].is_node THEN <<>>
    ELSE <<[exe |-> "bash", script |-> NpmDevCmd, cwd |-> <<>>, target |-> <<>>]>>

_npm_dev(it) ==
    IF it = <<>> \/ ~it[1].is_node THEN <<>>
    ELSE <<RunCmd(NpmDevCmd, it[1].path)>>

\* variant: the environment is created anew on every run
PythonSetupAlwaysCreates(it, fsys) ==
    IF it = <<>> \/ ~it[1].is_python THEN <<>>
    ELSE <<RunCmd(VenvCmd, it[1].path)>>

\* _python_setup up to its first _run: the venv command when
\* venv_dir.exists() is false, the install script otherwise
_python_setup(it, fsys) ==
    IF it = <<>> \/ ~it[1].is_python THEN <<>>
    ELSE IF ~HasEntry(fsys, it[1].path, ".venv")
         THEN <<RunCmd(VenvCmd, it[1].path)>>
         ELSE <<RunCmd(PipInstallCmd, it[1].path)>>

\* actions[key][1]() for the keys whose effect may run a command
EffectCmd(k, it, fsys) ==
    IF k = <<"o">> THEN _open_selected(it)
    ELSE IF k = <<"g">> THEN _git_status(it)
    ELSE IF k = <<"n">> THEN _npm_dev(it)
    ELSE IF k = <<"p">> THEN _python_setup(it, fsys)
    ELSE <<>>

\* variant: the refresh key resets the selection
EffectIndexRefreshResets(k, index, its) ==
    IF k = <<"j">> THEN _select_delta(index, 1, its)
    ELSE IF k = <<"k">> THEN _select_delta(index, -1, its)
    ELSE IF k = <<"r">> THEN 0
    ELSE index

\* actions[key][1]() on selected_index
EffectIndex(k, index, its) ==
    IF k = <<"j">> THEN _select_delta(index, 1, its)
    ELSE IF k = <<"k">> THEN _select_delta(index, -1, its)
    ELSE index

\* exit statuses of a child: success, failure, bash's "command not found"
ExitStatuses == {0, 1, 127}

----------------------------------------------------------------------------
(* The GitHub client and its file cache (src/cerveau/gh/client.py) *)

\* cache keys built by list_repos and get_repo
CacheKeys == {"repos_o_30", "repo_o_r"}

\* cache_key=None, the default of _get: falsy
NoKey == ""

\* decoded JSON bodies the API may answer with
Responses == {"body1", "body2"}

EmptyCache == [k \in CacheKeys |-> <<>>]

NoCall == [key |-> NoKey, at |-> 0, before |-> EmptyCache, events |-> <<>>,
           result |-> <<>>, raised |-> FALSE]

\* variant: an entry as old as the TTL is stale
CacheGetStaleAtTtl(files, k, t) ==
    IF files[k] = <<>> THEN <<>>
    ELSE IF t - files[k][1].mtime >= CacheTtl THEN <<>>
    ELSE <<files[k][1].value>>

\* Cache.get(key) at time t: <<>> is None
CacheGet(files, k, t) ==
    IF files[k] = <<>> THEN <<>>
    ELSE IF t - files[k][1].mtime > CacheTtl THEN <<>>
    ELSE <<files[k][1].value>>

\* Cache.set(key, value) at time t: write_text sets the file's mtime
CacheSet(files, k, value, t) ==
    [files EXCEPT ![k] = <<[mtime |-> t, value |-> value]>>]

\* what requests.get, raise_for_status and r.json() may come to: a decoded
\* body, or an exception (no connection, timeout, error status, no JSON)
RequestOutcomes ==
    {[ok |-> TRUE, data |-> d] : d \in Responses}
        \cup {[ok |-> FALSE, data |-> ""]}

\* GitHubClient._get(path, cache_key=k) at time t when the request, if one
\* is made, comes to `outcome`: the calls it makes in order, what it
\* returns (<<>> when it raises) and the cache files it leaves
_get(files, k, t, outcome) ==
    LET cached == IF k # NoKey THEN CacheGet(files, k, t) ELSE <<>>
        looked == IF k # NoKey THEN <<"cache.get">> ELSE <<>>
    IN IF cached # <<>>
       THEN [events |-> looked, result |-> cached, raised |-> FALSE,
             files |-> files]
       ELSE IF ~outcome.ok
       THEN [events |-> looked \o <<"requests.get">>, result |-> <<>>,
             raised |-> TRUE, files |-> files]
       ELSE IF k # NoKey
       THEN [events |-> looked \o <<"requests.get", "cache.set">>,
             result |-> <<outcome.data>>, raised |-> FALSE,
             files |-> CacheSet(files, k, outcome.data, t)]
       ELSE [events |-> looked \o <<"requests.get">>,
             result |-> <<outcome.data>>, raised |-> FALSE, files |-> files]

----------------------------------------------------------------------------
(* The dashboard loop of _vince_tui and its environment *)

\* The projects the environment may create under the workspace root: a
\* directory name and the marker entries the project is created with.
ProjectPool ==
    << [name |-> NameA, markers |-> {".git", "package.json"}],
       [name |-> NameUpperB, markers |-> {"requirements.txt"}],
       [name |-> NameC, markers |-> {}],
       [name |-> NameUpperD, markers |-> {".git", "pyproject.toml", ".obsidian"}],
       [name |-> NameE, markers |-> {"package.json"}] >>
Projects == {ProjectPool[i] : i \in 1..MaxDirs}

EmptyFs == [n \in {} |-> [isdir |-> TRUE, markers |-> {}]]

WithChild(fsys, name, entry) ==
    [n \in DOMAIN fsys \cup {name} |-> IF n = name THEN entry ELSE fsys[n]]

WithoutChild(fsys, name) == [n \in DOMAIN fsys \ {name} |-> fsys[n]]

\* state on entry to _vince_tui (app.py:195-199), workspace present and empty
Init ==
    /\ pc = "scan"
    /\ root = "dir"
    /\ fs = EmptyFs
    /\ items = <<>>
    /\ selected_index = 0
    /\ selected = <<>>
    /\ key = <<>>
    /\ running = <<>>
    /\ after = "return"
    /\ cmds = <<>>
    /\ exited = FALSE
    /\ clamped = FALSE
    /\ input = "none"
    /\ cache = EmptyCache
    /\ now = 0
    /\ call = NoCall
    /\ pips = <<>>
    /\ painted = NoPaint

\* items = scan_workspace(workspace_root), returning
ScanReturns ==
    /\ pc = "scan"
    /\ \E iterdir \in Orders(DOMAIN fs),
          lookups \in [GitCandidates(fs) -> LookupOutcomes] :
          /\ ~ScanRaises(root, fs, lookups)
          /\ items' = scan_workspace(root, fs, iterdir, lookups)
    /\ selected' = <<>>
    /\ key' = <<>>
    /\ cmds' = <<>>
    /\ input' = "none"
    /\ clamped' = FALSE
    /\ painted' = NoPaint
    /\ pips' = <<>>
    /\ pc' = "render"
    /\ UNCHANGED <<root, fs, selected_index, running, after, exited, cache,
                   now, call>>

\* items = scan_workspace(workspace_root), raising: nothing in _vince_tui
\* catches it
ScanFails ==
    /\ pc = "scan"
    /\ \E lookups \in [GitCandidates(fs) -> LookupOutcomes] :
          ScanRaises(root, fs, lookups)
    /\ pc' = "raised_scan"
    /\ UNCHANGED <<root, fs, items, selected_index, selected, key, running,
                   after, cmds, exited, clamped, input, painted, pips, cache,
                   now, call>>

\* actions = _render(items): clamp, capture the selected item, paint
Render ==
    /\ pc = "render"
    /\ selected_index' = ClampSelection(selected_index, Len(items))
    /\ selected' = SelectedItem(items, selected_index')
    /\ exited' = FALSE
    /\ clamped' = (selected_index' # selected_index)
    /\ painted' = Paint(items, selected_index')
    /\ pc' = "prompt"
    /\ UNCHANGED <<root, fs, items, key, running, after, cmds, input, pips,
                   cache, now, call>>

\* key = Prompt.ask("Action", default="q").strip(), a line was read
ReadKey ==
    /\ pc = "prompt"
    /\ \E line \in InputLines :
          /\ key' = PromptAsk(line)
          /\ input' = IF line = <<>> THEN "empty" ELSE "line"
    /\ pc' = "dispatch"
    /\ UNCHANGED <<root, fs, items, selected_index, selected, running, after,
                   cmds, exited, clamped, painted, pips, cache, now, call>>

\* Prompt.ask at end of input: input() raises EOFError, which neither
\* Prompt.ask nor _vince_tui catches
ReadEof ==
    /\ pc = "prompt"
    /\ input' = "eof"
    /\ pc' = "raised_prompt"
    /\ UNCHANGED <<root, fs, items, selected_index, selected, key, running,
                   after, cmds, exited, clamped, painted, pips, cache, now,
                   call>>

\* `if key not in actions: continue`
DispatchIgnored ==
    /\ pc = "dispatch"
    /\ ~InActions(key)
    /\ pc' = "scan"
    /\ UNCHANGED <<root, fs, items, selected_index, selected, key, running,
                   after, cmds, exited, clamped, input, painted, pips, cache,
                   now, call>>

\* `if key == "q": return`
DispatchQuit ==
    /\ pc = "dispatch"
    /\ InActions(key)
    /\ key = <<"q">>
    /\ pc' = "done"
    /\ UNCHANGED <<root, fs, items, selected_index, selected, key, running,
                   after, cmds, exited, clamped, input, painted, pips, cache,
                   now, call>>

\* actions[key][1]() for an effect that returns without running a command
DispatchNoCommand ==
    /\ pc = "dispatch"
    /\ InActions(key)
    /\ key # <<"q">>
    /\ EffectCmd(key, selected, fs) = <<>>
    /\ selected_index' = EffectIndex(key, selected_index, items)
    /\ pc' = "scan"
    /\ UNCHANGED <<root, fs, items, selected, key, running, after, cmds,
                   exited, clamped, input, painted, pips, cache, now, call>>

\* where an effect continues after the child `cmd` exits
Continuation(cmd) == IF cmd.script = VenvCmd THEN "py_install" ELSE "return"

\* whether the executable of cmd may be missing on this machine
ExeFoundChoices(cmd) == IF cmd.exe = "xdg-open" THEN BOOLEAN ELSE {TRUE}

\* actions[key][1]() reaching subprocess.run, the child starts
DispatchSpawn ==
    /\ pc = "dispatch"
    /\ InActions(key)
    /\ key # <<"q">>
    /\ EffectCmd(key, selected, fs) # <<>>
    /\ LET cmd == EffectCmd(key, selected, fs)[1]
       IN /\ \E found \in ExeFoundChoices(cmd) : ~SpawnRaises(cmd, fs, found)
          /\ running' = <<cmd>>
          /\ cmds' = Append(cmds, cmd)
          /\ after' = Continuation(cmd)
          /\ pips' \in IF cmd.script = PipInstallCmd
                       THEN InstallScript(fs, cmd.cwd[1])
                       ELSE {pips}
    /\ pc' = "wait"
    /\ UNCHANGED <<root, fs, items, selected_index, selected, key, exited,
                   clamped, input, painted, cache, now, call>>

\* actions[key][1]() reaching subprocess.run, which raises
DispatchSpawnRaises ==
    /\ pc = "dispatch"
    /\ InActions(key)
    /\ key # <<"q">>
    /\ EffectCmd(key, selected, fs) # <<>>
    /\ LET cmd == EffectCmd(key, selected, fs)[1]
       IN \E found \in ExeFoundChoices(cmd) : SpawnRaises(cmd, fs, found)
    /\ pc' = "raised_effect"
    /\ UNCHANGED <<root, fs, items, selected_index, selected, key, running,
                   after, cmds, exited, clamped, input, painted, pips, cache,
                   now, call>>

\* what a finished child left on disk: a successful venv command creates
\* .venv in its working directory
AfterExit(fsys, cmd, status) ==
    IF cmd.script = VenvCmd /\ status = 0 /\ IsDir(fsys, cmd.cwd[1])
    THEN WithChild(fsys, cmd.cwd[1],
                   [isdir |-> TRUE,
                    markers |-> fsys[cmd.cwd[1]].markers \cup {".venv"}])
    ELSE fsys

\* subprocess.run returns: the child exited, with whatever status
ChildExit ==
    /\ pc = "wait"
    /\ \E status \in ExitStatuses : fs' = AfterExit(fs, running[1], status)
    /\ running' = <<>>
    /\ exited' = TRUE
    /\ pc' = IF after = "py_install" THEN "py_install" ELSE "scan"
    /\ after' = "return"
    /\ UNCHANGED <<root, items, selected_index, selected, key, cmds, clamped,
                   input, painted, pips, cache, now, call>>

\* the second _run of _python_setup (app.py:388), the child starts
PyInstallSpawn ==
    /\ pc = "py_install"
    /\ LET cmd == RunCmd(PipInstallCmd, selected[1].path)
       IN /\ ~SpawnRaises(cmd, fs, TRUE)
          /\ running' = <<cmd>>
          /\ cmds' = Append(cmds, cmd)
          /\ pips' \in InstallScript(fs, cmd.cwd[1])
    /\ pc' = "wait"
    /\ UNCHANGED <<root, fs, items, selected_index, selected, key, after,
                   exited, clamped, input, painted, cache, now, call>>

\* the second _run of _python_setup, subprocess.run raises
PyInstallRaises ==
    /\ pc = "py_install"
    /\ SpawnRaises(RunCmd(PipInstallCmd, selected[1].path), fs, TRUE)
    /\ pc' = "raised_effect"
    /\ UNCHANGED <<root, fs, items, selected_index, selected, key, running,
                   after, cmds, exited, clamped, input, painted, pips, cache,
                   now, call>>

\* The environment acts while the program is blocked: on the prompt or on a
\* child process.
Blocked == pc \in {"prompt", "wait"}

EnvMkDir ==
    /\ Blocked
    /\ root = "dir"
    /\ \E p \in Projects :
          /\ p.name \notin DOMAIN fs
          /\ fs' = WithChild(fs, p.name, [isdir |-> TRUE, markers |-> p.markers])
    /\ UNCHANGED <<pc, root, items, selected_index, selected, key, running,
                   after, cmds, exited, clamped, input, painted, pips, cache,
                   now, call>>

EnvRmDir ==
    /\ Blocked
    /\ \E name \in DOMAIN fs : fs' = WithoutChild(fs, name)
    /\ UNCHANGED <<pc, root, items, selected_index, selected, key, running,
                   after, cmds, exited, clamped, input, painted, pips, cache,
                   now, call>>

\* the workspace root is removed, replaced by a plain file, or created
EnvRoot ==
    /\ Blocked
    /\ \/ root = "dir" /\ root' = "absent"
       \/ root = "absent" /\ root' \in {"dir", "file"}
       \/ root = "file" /\ root' = "absent"
    /\ fs' = EmptyFs
    /\ UNCHANGED <<pc, items, selected_index, selected, key, running, after,
                   cmds, exited, clamped, input, painted, pips, cache, now,
                   call>>

Next ==
    \/ ScanReturns
    \/ ScanFails
    \/ Render
    \/ ReadKey
    \/ ReadEof
    \/ DispatchIgnored
    \/ DispatchQuit
    \/ DispatchNoCommand
    \/ DispatchSpawn
    \/ DispatchSpawnRaises
    \/ ChildExit
    \/ PyInstallSpawn
    \/ PyInstallRaises
    \/ EnvMkDir
    \/ EnvRmDir
    \/ EnvRoot

Spec == Init /\ [][Next]_vars

----------------------------------------------------------------------------
(* scan_workspace on enumerated directory sets *)

\* names a child of the root may have in the scan specification
ScanNames ==
    { NameA, NameUpperA, NameUpperB, DotObsidian, DotGit, DotO, NodeModules,
      PyCache, DotVenv, Dist, UpperDist, Build, DotCache }

\* what a child may be: a plain file, a directory, a git work tree
ScanEntries ==
    { [isdir |-> FALSE, markers |-> {}],
      [isdir |-> TRUE, markers |-> {}],
      [isdir |-> TRUE, markers |-> {".git"}] }

\* every root with at most MaxScanChildren children
ScanRoots ==
    UNION { [S -> ScanEntries] :
              S \in {T \in SUBSET ScanNames : Cardinality(T) <= MaxScanChildren} }

\* the loop is about to call scan_workspace on some root
InitScan ==
    /\ pc = "scan"
    /\ \/ root = "dir" /\ fs \in ScanRoots
       \/ root \in {"absent", "file"} /\ fs = EmptyFs
    /\ items = <<>>
    /\ selected_index = 0
    /\ selected = <<>>
    /\ key = <<>>
    /\ running = <<>>
    /\ after = "return"
    /\ cmds = <<>>
    /\ exited = FALSE
    /\ clamped = FALSE
    /\ input = "none"
    /\ cache = EmptyCache
    /\ now = 0
    /\ call = NoCall
    /\ pips = <<>>
    /\ painted = NoPaint

NextScan ==
    \/ ScanReturns
    \/ ScanFails

SpecScan == InitScan /\ [][NextScan]_vars

----------------------------------------------------------------------------
(* The effects on one selected item of every classification *)

\* marker entries that decide the four classification flags, and .venv
EffectMarkers == {".git", "requirements.txt", "package.json", ".obsidian", ".venv"}

\* the loop starts on an empty workspace or on one project of any kind
InitEffects ==
    /\ pc = "scan"
    /\ root = "dir"
    /\ \/ fs = EmptyFs
       \/ \E m \in SUBSET EffectMarkers :
             fs = WithChild(EmptyFs, NameA, [isdir |-> TRUE, markers |-> m])
    /\ items = <<>>
    /\ selected_index = 0
    /\ selected = <<>>
    /\ key = <<>>
    /\ running = <<>>
    /\ after = "return"
    /\ cmds = <<>>
    /\ exited = FALSE
    /\ clamped = FALSE
    /\ input = "none"
    /\ cache = EmptyCache
    /\ now = 0
    /\ call = NoCall
    /\ pips = <<>>
    /\ painted = NoPaint

\* the loop, with an environment that only removes directories
NextEffects ==
    \/ ScanReturns
    \/ ScanFails
    \/ Render
    \/ ReadKey
    \/ ReadEof
    \/ DispatchIgnored
    \/ DispatchQuit
    \/ DispatchNoCommand
    \/ DispatchSpawn
    \/ DispatchSpawnRaises
    \/ ChildExit
    \/ PyInstallSpawn
    \/ PyInstallRaises
    \/ EnvRmDir

SpecEffects == InitEffects /\ [][NextEffects]_vars

----------------------------------------------------------------------------
(* One render, prompt and dispatch on scan results longer than the table *)

\* the name of the i-th project of a large workspace: "aa", "ab", ...
ManyName(i) == <<97 + (i \div 26), 97 + (i % 26)>>

\* the markers the i-th project is made with
ManyMarkers(i) ==
    IF i % 4 = 0 THEN {".git"}
    ELSE IF i % 4 = 1 THEN {"package.json"}
    ELSE IF i % 4 = 2 THEN {"requirements.txt"}
    ELSE {}

\* a workspace of n projects
ManyFs(n) ==
    [nm \in {ManyName(i) : i \in 0..(n - 1)} |->
        [isdir |-> TRUE, markers |-> ManyMarkers((nm[1] - 97) * 26 + nm[2] - 97)]]

\* the loop has scanned a workspace of up to MaxItems projects and is about
\* to render it; selected_index is what an earlier iteration left
InitRender ==
    /\ pc = "render"
    /\ root = "dir"
    /\ \E n \in 0..MaxItems :
          /\ fs = ManyFs(n)
          /\ items = scan_workspace("dir", fs, [i \in 1..n |-> ManyName(n - i)],
                                    OkLookups(fs))
    /\ selected_index \in 0..(MaxItems - 1)
    /\ selected = <<>>
    /\ key = <<>>
    /\ running = <<>>
    /\ after = "return"
    /\ cmds = <<>>
    /\ exited = FALSE
    /\ clamped = FALSE
    /\ input = "none"
    /\ cache = EmptyCache
    /\ now = 0
    /\ call = NoCall
    /\ painted = NoPaint
    /\ pips = <<>>

\* the rest of the iteration, on a filesystem nobody else touches
NextRender ==
    \/ Render
    \/ ReadKey
    \/ ReadEof
    \/ DispatchIgnored
    \/ DispatchQuit
    \/ DispatchNoCommand
    \/ DispatchSpawn
    \/ DispatchSpawnRaises
    \/ ChildExit
    \/ PyInstallSpawn

SpecRender == InitRender /\ [][NextRender]_vars

----------------------------------------------------------------------------
(* Calls of GitHubClient._get over time *)

\* cache directories a run may start with: each key without a file or with
\* a body written at tick 0 by an earlier run
InitialCaches ==
    [CacheKeys -> {<<>>} \cup {<<[mtime |-> 0, value |-> d]>> : d \in Responses}]

InitClient ==
    /\ pc = "scan"
    /\ root = "dir"
    /\ fs = EmptyFs
    /\ items = <<>>
    /\ selected_index = 0
    /\ selected = <<>>
    /\ key = <<>>
    /\ running = <<>>
    /\ after = "return"
    /\ cmds = <<>>
    /\ exited = FALSE
    /\ clamped = FALSE
    /\ input = "none"
    /\ painted = NoPaint
    /\ pips = <<>>
    /\ cache \in InitialCaches
    /\ now = 0
    /\ call = NoCall

\* one call of _get, through list_repos or get_repo or without a key
Get ==
    /\ \E k \in CacheKeys \cup {NoKey}, outcome \in RequestOutcomes :
          LET r == _get(cache, k, now, outcome)
          IN /\ cache' = r.files
             /\ call' = [key |-> k, at |-> now, before |-> cache,
                         events |-> r.events, result |-> r.result,
                         raised |-> r.raised]
    /\ UNCHANGED <<pc, root, fs, items, selected_index, selected, key, running,
                   after, cmds, exited, clamped, input, painted, pips, now>>

\* time passes
Tick ==
    /\ now < MaxTime
    /\ now' = now + 1
    /\ UNCHANGED <<pc, root, fs, items, selected_index, selected, key, running,
                   after, cmds, exited, clamped, input, painted, pips, cache,
                   call>>

NextClient ==
    \/ Get
    \/ Tick

SpecClient == InitClient /\ [][NextClient]_vars

----------------------------------------------------------------------------
(* Properties *)

Raised == {"raised_scan", "raised_prompt", "raised_effect"}

\* C1: the loop leaves Running only through the quit key: no failing scan,
\* lookup or external action ends it by an exception, and when it has
\* returned, the key dispatched was the quit key.
C1_OnlyQuitEndsLoop ==
    /\ pc \notin {"raised_scan", "raised_effect"}
    /\ (pc = "done" => key = <<"q">>)

\* the selection index is a valid position of the latest scan result
IndexInRange ==
    IF items # <<>> THEN selected_index >= 0 /\ selected_index < Len(items)
    ELSE selected_index = 0

\* C2 (as stated): in every reachable state, scan, render, key read and
\* dispatch being separate steps, 0 <= i < len(S) when S is non-empty and
\* i = 0 when S is empty.
C2_IndexInRangeEverywhere == IndexInRange

\* C2 (amended): the same, in every reachable state except the one between
\* the return of a scan and the clamp of the render that follows it.
C2_IndexInRangeOutsideScanToRender == pc # "render" => IndexInRange

\* a smaller scan result was clamped and a key has been read on it
C2_Witness ==
    /\ pc = "dispatch"
    /\ clamped
    /\ items # <<>>
    /\ selected_index = Len(items) - 1

\* C3: on N >= 1 items "select next" takes i to (i + 1) mod N and "select
\* previous" takes i to (i - 1) mod N, wrapping at both ends; on no items
\* both leave the index unchanged.
C3_SelectWrapsAround ==
    [][ (pc = "dispatch" /\ key \in {<<"j">>, <<"k">>}) =>
          LET n == Len(items)
              i == selected_index
          IN selected_index' =
                IF n = 0 THEN i
                ELSE IF key = <<"j">> THEN (IF i = n - 1 THEN 0 ELSE i + 1)
                ELSE (IF i = 0 THEN n - 1 ELSE i - 1) ]_vars

\* "select previous" was dispatched on the first of several items and the
\* index is now the last position
C3_Witness ==
    /\ pc = "scan"
    /\ key = <<"k">>
    /\ Len(items) >= 2
    /\ selected = <<items[1]>>
    /\ selected_index = Len(items) - 1

\* C4: the render step changes the index only by truncation against the
\* fresh scan result: count - 1 (0 for no items) when the count is at or
\* below the index, unchanged otherwise.
C4_RenderTruncates ==
    [][ pc = "render" =>
          selected_index' =
              IF Len(items) <= selected_index
              THEN (IF Len(items) = 0 THEN 0 ELSE Len(items) - 1)
              ELSE selected_index ]_vars

\* a render has truncated the index to the last of the remaining items
C4_Witness ==
    /\ pc = "prompt"
    /\ clamped
    /\ Len(items) >= 2
    /\ selected_index = Len(items) - 1

\* the selection captured by the effects lacks what the effect of key k needs
LacksPrecondition(k, it) ==
    \/ it = <<>>
    \/ k = <<"g">> /\ ~it[1].is_git
    \/ k = <<"n">> /\ ~it[1].is_node
    \/ k = <<"p">> /\ ~it[1].is_python

\* C5: an item-scoped effect (open, git status, npm dev, python setup)
\* dispatched with nothing selected or on an item without its precondition
\* spawns no process and changes neither the index nor the scan result.
C5_PreconditionUnmetIsNoOp ==
    [][ ( /\ pc = "dispatch"
          /\ key \in {<<"o">>, <<"g">>, <<"n">>, <<"p">>}
          /\ LacksPrecondition(key, selected) ) =>
          /\ pc' = "scan"
          /\ cmds' = cmds
          /\ running' = <<>>
          /\ selected_index' = selected_index
          /\ items' = items
          /\ fs' = fs ]_vars

\* git status was dispatched on a selected Node and Python project that is
\* no git work tree, and nothing was spawned
C5_Witness ==
    /\ pc = "scan"
    /\ key = <<"g">>
    /\ selected # <<>>
    /\ ~selected[1].is_git
    /\ selected[1].is_node
    /\ selected[1].is_python
    /\ selected[1].is_obsidian
    /\ cmds = <<>>

\* C6: once a command of an effect has exited, the loop is not left before
\* it has scanned and rendered again.
C6_ExitIsFollowedByRender == ~(pc \in Raised /\ exited)

\* C7: on empty input or end of input the loop does what the quit key does:
\* the key dispatched is the quit key, the loop returns, no effect runs.
C7_EmptyOrEofQuits ==
    input \in {"empty", "eof"} =>
        /\ pc \in {"dispatch", "done"}
        /\ key = <<"q">>
        /\ cmds = <<>>

\* C8: dispatching a key that is not in the registry, or the refresh key,
\* spawns nothing, leaves the index alone and goes on to the next scan.
C8_IgnoredKeysChangeNothing ==
    [][ ( /\ pc = "dispatch"
          /\ \/ key = <<"r">>
             \/ ~(Len(key) = 1 /\ key[1] \in ActionKeys) ) =>
          /\ pc' = "scan"
          /\ selected_index' = selected_index
          /\ cmds' = cmds
          /\ running' = running
          /\ items' = items
          /\ fs' = fs ]_vars

\* the refresh key was dispatched while a later item was selected
C8_Witness ==
    /\ pc = "scan"
    /\ key = <<"r">>
    /\ selected_index > 0
    /\ cmds = <<>>
    /\ running = <<>>

\* C9: the scan returns an item for a child exactly when the child is a
\* directory, is not named like noise and is not hidden, ".obsidian" being
\* the one hidden name let through.
C9_ScanFilter ==
    (pc = "render" /\ root = "dir") =>
        \A n \in DOMAIN fs :
            (\E i \in 1..Len(items) : items[i].name = n)
            <=> ( /\ fs[n].isdir
                  /\ n \notin {NodeModules, PyCache, DotVenv, Dist, Build, DotCache}
                  /\ (n[1] = 46 => n = DotObsidian) )

\* a scan of ".obsidian" beside the noise directory "dist" kept the first only
C9_Witness ==
    /\ pc = "render"
    /\ DOMAIN fs = {DotObsidian, Dist}
    /\ fs[DotObsidian].isdir
    /\ fs[Dist].isdir
    /\ Len(items) = 1
    /\ items[1].name = DotObsidian

ItemNames(its) == [i \in 1..Len(its) |-> its[i].name]

\* C10: for a fixed set of directories the scan returns the same items in
\* the same order whatever the order in which the children are enumerated.
C10_ScanOrderIndependent ==
    pc = "render" =>
        \A iterdir \in Orders(DOMAIN fs) :
            ItemNames(scan_workspace(root, fs, iterdir, OkLookups(fs)))
                = ItemNames(items)

\* C11: whatever the directories and the order in which they are enumerated,
\* the scan result is in non-decreasing order of the lowercased names: no
\* item's lowercased name is smaller than that of an item before it.
C11_ScanSortedByLowercase ==
    pc = "render" =>
        \A i, j \in 1..Len(items) :
            i < j => ~StrLess(Lower(items[j].name), Lower(items[i].name))

\* a scan returned "a" before "B", which are the other way round as code
\* points
C11_Witness ==
    /\ pc = "render"
    /\ Len(items) = 2
    /\ items[1].name = NameA
    /\ items[2].name = NameUpperB

\* C12: when the selected item is a Node project (scanned as one, and one
\* on disk when the key is dispatched), the dev-server key spawns exactly
\* one command, in the selected item's path; from that spawn until the
\* child exits the loop neither scans, renders nor reads a key, and after
\* the exit it goes to the next scan without another command.
C12_NpmDevSpawnsOnceAndBlocks ==
    /\ [][ ( /\ pc = "dispatch"
             /\ key = <<"n">>
             /\ selected # <<>>
             /\ selected[1].is_node
             /\ HasEntry(fs, selected[1].path, "package.json") ) =>
             /\ pc' = "wait"
             /\ running' = <<[exe |-> "bash", script |-> NpmDevCmd,
                              cwd |-> <<selected[1].path>>, target |-> <<>>]>>
             /\ cmds' = running' ]_vars
    /\ [][ (pc = "wait" /\ key = <<"n">>) =>
             /\ items' = items
             /\ selected_index' = selected_index
             /\ selected' = selected
             /\ key' = key
             /\ input' = input
             /\ cmds' = cmds
             /\ \/ pc' = "wait" /\ running' = running
                \/ pc' = "scan" /\ running' = <<>> /\ exited' ]_vars

\* the dev server of the selected Node project has run in the project's
\* directory and exited, and the loop is about to scan again
C12_Witness ==
    /\ pc = "scan"
    /\ key = <<"n">>
    /\ exited
    /\ selected # <<>>
    /\ selected[1].is_node
    /\ Len(cmds) = 1
    /\ cmds[1].script = NpmDevCmd
    /\ cmds[1].cwd = <<selected[1].path>>

\* C13: every command an item-scoped effect starts is aimed at the item at
\* the selection index of the scan result of the same cycle, which is the
\* item the last render showed as selected, and the effect is chosen by that
\* item's flags as scanned; this holds whatever the filesystem has become
\* since that scan.
C13_EffectsActOnRenderedSelection ==
    [][ (pc \in {"dispatch", "py_install"} /\ running' # <<>>) =>
          /\ items # <<>>
          /\ selected_index \in 0..(Len(items) - 1)
          /\ LET it == items[selected_index + 1]
                 cmd == running'[1]
             IN /\ painted.footer = <<[name |-> it.name, path |-> it.path]>>
                /\ cmd.cwd = <<it.path>> \/ cmd.target = <<it.path>>
                /\ key = <<"g">> => it.is_git
                /\ key = <<"n">> => it.is_node
                /\ key = <<"p">> => it.is_python ]_vars

\* project "B" was scanned and rendered alone, at index 0; project "a", which
\* a new scan would put at index 0, was created afterwards; the effect runs
\* in "B"
C13_Witness ==
    /\ pc = "wait"
    /\ selected_index = 0
    /\ Len(items) = 1
    /\ items[1].name = NameUpperB
    /\ NameA \in DOMAIN fs
    /\ running # <<>>
    /\ running[1].cwd = <<NameUpperB>>

\* the captured selection is a Python project, as scanned and on disk
PythonProjectSelected ==
    /\ selected # <<>>
    /\ selected[1].is_python
    /\ _detect_python_project(fs, selected[1].path)

\* C14: python setup on a Python project starts with the venv-creation
\* command exactly when the project has no .venv at that moment; with a
\* .venv it starts no such command and its install script leaves the
\* filesystem as it is; in both cases the install script (upgrade pip, then
\* install from requirements.txt if there is one) is the next command, the
\* last one, and the loop stays blocked on each command until it exits.
C14_VenvCreatedOnlyIfAbsentThenInstall ==
    /\ [][ (pc = "dispatch" /\ key = <<"p">> /\ PythonProjectSelected) =>
             /\ pc' = "wait"
             /\ cmds' = running'
             /\ running'[1].cwd = <<selected[1].path>>
             /\ running'[1].script =
                  IF ".venv" \in fs[selected[1].path].markers
                  THEN PipInstallCmd ELSE VenvCmd ]_vars
    /\ [][ (pc = "py_install" /\ PythonProjectSelected) =>
             /\ pc' = "wait"
             /\ Len(cmds) = 1
             /\ cmds[1].script = VenvCmd
             /\ running'[1].script = PipInstallCmd
             /\ running'[1].cwd = <<selected[1].path>>
             /\ cmds' = Append(cmds, running'[1]) ]_vars
    /\ [][ (pc \in {"dispatch", "py_install"} /\ key = <<"p">>
            /\ running' # <<>> /\ running'[1].script = PipInstallCmd) =>
             /\ Len(pips') = IF "requirements.txt" \in fs[selected[1].path].markers
                             THEN 2 ELSE 1
             /\ pips'[1].cmd = "python -m pip install -U pip"
             /\ Len(pips') = 2 => pips'[2].cmd = "pip install -r requirements.txt" ]_vars
    /\ [][ (pc = "wait" /\ key = <<"p">>) =>
             /\ items' = items
             /\ selected_index' = selected_index
             /\ selected' = selected
             /\ key' = key
             /\ input' = input
             /\ cmds' = cmds
             /\ pips' = pips
             /\ \/ pc' = "wait" /\ running' = running
                \/ /\ running' = <<>>
                   /\ pc' = IF running[1].script = VenvCmd
                            THEN "py_install" ELSE "scan"
                   /\ running[1].script = PipInstallCmd => fs' = fs ]_vars

\* python setup ran on a project that had a .venv and a requirements.txt:
\* the install script was its only command, both pip commands ran, and the
\* .venv is still there
C14_Witness ==
    /\ pc = "scan"
    /\ key = <<"p">>
    /\ exited
    /\ Len(cmds) = 1
    /\ cmds[1].script = PipInstallCmd
    /\ Len(pips) = 2
    /\ HasEntry(fs, selected[1].path, ".venv")

\* C15: every scanned item that is no git work tree has "-" as branch and
\* as last_commit; no scanned item has an empty branch or last_commit,
\* whatever its lookups printed; and no scan of a listable root is ended by
\* an error of a lookup.
C15_LookupsDegradeToSentinel ==
    /\ pc = "render" =>
          \A i \in 1..Len(items) :
              /\ ~items[i].is_git =>
                    items[i].branch = "-" /\ items[i].last_commit = "-"
              /\ items[i].branch # ""
              /\ items[i].last_commit # ""
    /\ ~(pc = "raised_scan" /\ root = "dir")

\* C16: the cap of 30 is on the rows only. For a scan result of N items a
\* render paints the first min(N, 30) items as rows and counts all N items
\* in the summary; after it the index is in [0, N) when N > 0; "next" and
\* "previous" wrap modulo N; and a command started by an effect is aimed at
\* item number index of all N.
C16_CapOnRowsOnly ==
    /\ [][ pc = "render" =>
             LET n == Len(items)
                 shown == IF n <= 30 THEN n ELSE 30
             IN /\ Len(painted'.rows) = shown
                /\ \A i \in 1..shown : painted'.rows[i].name = items[i].name
                /\ painted'.counts.dirs = n
                /\ painted'.counts.git
                     = Cardinality({i \in 1..n : items[i].is_git})
                /\ painted'.counts.py
                     = Cardinality({i \in 1..n : items[i].is_python})
                /\ painted'.counts.node
                     = Cardinality({i \in 1..n : items[i].is_node})
                /\ painted'.counts.obs
                     = Cardinality({i \in 1..n : items[i].is_obsidian})
                /\ n > 0 => selected_index' \in 0..(n - 1)
                /\ selected_index < n => selected_index' = selected_index ]_vars
    /\ [][ (pc = "dispatch" /\ key \in {<<"j">>, <<"k">>} /\ items # <<>>) =>
             LET n == Len(items)
             IN selected_index' =
                   IF key = <<"j">>
                   THEN (IF selected_index = n - 1 THEN 0 ELSE selected_index + 1)
                   ELSE (IF selected_index = 0 THEN n - 1 ELSE selected_index - 1)
          ]_vars
    /\ [][ (pc = "dispatch" /\ running' # <<>>) =>
             \/ running'[1].cwd = <<items[selected_index + 1].path>>
             \/ running'[1].target = <<items[selected_index + 1].path>> ]_vars

\* "previous" on the first of more than 30 items: the table had 30 rows, the
\* summary counted them all, and the index is now the last item, past the
\* table
C16_Witness ==
    /\ pc = "scan"
    /\ key = <<"k">>
    /\ Len(items) > MaxRows
    /\ Len(painted.rows) = MaxRows
    /\ painted.counts.dirs = Len(items)
    /\ selected = <<items[1]>>
    /\ selected_index = Len(items) - 1

\* C17: for every _get call made with a cache key: the first thing it does
\* is look in the cache; if the key had an entry no older than the TTL it
\* does nothing else, returns that entry and leaves the cache as it was;
\* otherwise it makes exactly one request, and either the request succeeded,
\* the body was stored under the key (dated at the call) before the return
\* and is what is returned, or the request failed, the call raised and the
\* cache is as it was before.
C17_CacheBeforeNetwork ==
    (call.events # <<>> /\ call.key \in CacheKeys) =>
        LET entry == call.before[call.key]
            fresh == entry # <<>> /\ call.at - entry[1].mtime <= CacheTtl
            requests == {i \in 1..Len(call.events) :
                            call.events[i] = "requests.get"}
        IN /\ call.events[1] = "cache.get"
           /\ fresh =>
                 /\ call.events = <<"cache.get">>
                 /\ call.result = <<entry[1].value>>
                 /\ ~call.raised
                 /\ cache = call.before
           /\ ~fresh =>
                 /\ requests = {2}
                 /\ \/ /\ ~call.raised
                       /\ call.events = <<"cache.get", "requests.get", "cache.set">>
                       /\ call.result # <<>>
                       /\ call.result[1] \in Responses
                       /\ cache[call.key] =
                             <<[mtime |-> call.at, value |-> call.result[1]]>>
                       /\ \A k \in CacheKeys \ {call.key} :
                             cache[k] = call.before[k]
                    \/ /\ call.raised
                       /\ call.events = <<"cache.get", "requests.get">>
                       /\ call.result = <<>>
                       /\ cache = call.before

\* a call found an entry exactly as old as the TTL and returned it without
\* a request
C17_Witness ==
    /\ call.key \in CacheKeys
    /\ call.before[call.key] # <<>>
    /\ call.at - call.before[call.key][1].mtime = CacheTtl
    /\ call.events = <<"cache.get">>
    /\ call.result = <<call.before[call.key][1].value>>

\* rows of the last render that carry the selection marker
MarkedRows == {i \in 1..Len(painted.rows) : painted.rows[i].marker}

\* C18 (as stated): after every render of a non-empty scan result exactly
\* one row of the table carries the marker, and it is the row of the item
\* the effects of the cycle act on, for every index and every item count.
C18_ExactlyOneMarkedRow ==
    (pc \in {"prompt", "dispatch"} /\ items # <<>>) =>
        /\ Cardinality(MarkedRows) = 1
        /\ \A i \in MarkedRows :
              /\ painted.rows[i].name = selected[1].name
              /\ painted.rows[i].path = selected[1].path

\* C18 (amended): after every render of a non-empty scan result at most one
\* row carries the marker. With the index below 30 exactly one does: row
\* index + 1, the row of the item the effects of the cycle act on. With the
\* index at 30 or above no row does, and the item the effects act on is the
\* one named in the footer.
C18_MarkedRowIfWithinTable ==
    (pc \in {"prompt", "dispatch"} /\ items # <<>>) =>
        /\ selected = <<items[selected_index + 1]>>
        /\ painted.footer = <<[name |-> selected[1].name,
                               path |-> selected[1].path]>>
        /\ IF selected_index < 30
           THEN /\ MarkedRows = {selected_index + 1}
                /\ painted.rows[selected_index + 1].name = selected[1].name
                /\ painted.rows[selected_index + 1].path = selected[1].path
           ELSE MarkedRows = {}

\* the last of more than 30 items is selected and named in the footer, and
\* none of the 30 rows is marked
C18_Witness ==
    /\ pc = "prompt"
    /\ Len(items) > MaxRows
    /\ selected_index = Len(items) - 1
    /\ Len(painted.rows) = MaxRows
    /\ MarkedRows = {}
    /\ painted.footer # <<>>
    /\ painted.footer[1].name = items[Len(items)].name

\* C19: no pip command of python setup reaches an interpreter outside the
\* item's .venv: when .venv could not be created or activated, neither the
\* upgrade nor the install from requirements.txt runs against the
\* interpreter found on PATH.
C19_PipOnlyInsideVenv ==
    \A i \in 1..Len(pips) : pips[i].interpreter # "outer"

====
